---- MODULE Spec2Model ----
(***************************************************************************)
(* Vehicle.update (src/src/simulation/vehicle.py) as a state machine.      *)
(*                                                                         *)
(* Quantities are integers: positions and lengths in length units, speeds  *)
(* in length units per time unit, dt in whole time units.  The profile     *)
(* factors 1.50, 0.75 and 0.8 are kept as exact fractions; every street    *)
(* speed limit of the network is a multiple of 4, so limit * factor is an  *)
(* integer, as it is exact in the program's floating point.                *)
(***************************************************************************)
EXTENDS Integers, Sequences, FiniteSets, TLC

\* ---------------------------------------------------------------- bounds
MaxDt == 2
MaxRouteLen == 2
MaxVehicles == 4
MaxRoom == 2

\* ------------------------------------------------------ program constants
max_accel == 2
max_decel == 4
MinGap == 5
LaneChangeDist == 50
SignalDist == 20
TurnAngle == 30
HalfTurn == 180
FullTurn == 360

Min(a, b) == IF a <= b THEN a ELSE b
Max(a, b) == IF a >= b THEN a ELSE b

None == "None"

\* VEHICLE_PROFILES: profile -> (speed_factor, reaction_time), as fractions.
VEHICLE_PROFILES ==
  [p \in {"raser", "normal", "slow_driver"} |->
     CASE p = "raser"       -> [sf_num |-> 3, sf_den |-> 2, rt_num |-> 4, rt_den |-> 5]
       [] p = "normal"      -> [sf_num |-> 1, sf_den |-> 1, rt_num |-> 1, rt_den |-> 1]
       [] p = "slow_driver" -> [sf_num |-> 3, sf_den |-> 4, rt_num |-> 1, rt_den |-> 1]]

Profiles == DOMAIN VEHICLE_PROFILES

\* ------------------------------------------------------------ the network
\* The streets the vehicle reads: id, length, num_lanes, speed_limit,
\* lane_dirs (lane 0 is lane_dirs[1]), end_node and coords (a polyline).
streets_map ==
  (1 :> [id |-> 1, length |-> 56, num_lanes |-> 3, speed_limit |-> 4,
         lane_dirs |-> << {"right", "through"}, {"through", "left"}, {"left"} >>,
         end_node |-> "A", coords |-> << <<0, 0>>, <<1, 0>> >>]
   @@
   2 :> [id |-> 2, length |-> 12, num_lanes |-> 3, speed_limit |-> 8,
         lane_dirs |-> << {"right"}, {"through", "left"}, {"left"} >>,
         end_node |-> "B", coords |-> << <<0, 0>>, <<0, 1>>, <<-1, 2>> >>]
   @@
   3 :> [id |-> 3, length |-> 10, num_lanes |-> 2, speed_limit |-> 4,
         lane_dirs |-> << {"right"}, {"left", "through"} >>,
         end_node |-> "C", coords |-> << <<0, 0>>, <<0, -1>>, <<-1, -2>> >>])

StreetIds == DOMAIN streets_map

\* The end nodes that have an Intersection; node "C" has none.
intersections_map == {"A", "B"}

\* ------------------------------------------------------------------ state
VARIABLES profile, current_street, lane_index, position_s, route_streets,
          route_index, speed, base_speed_limit, done, call, turn_call,
          vehicle_count, requested, placed, room, draw

fields == <<profile, current_street, lane_index, position_s, route_streets,
            route_index, speed, base_speed_limit, done>>
vars == <<profile, current_street, lane_index, position_s, route_streets,
          route_index, speed, base_speed_limit, done, call, turn_call,
          vehicle_count, requested, placed, room, draw>>

\* The Simulator: self.vehicle_count, the count it was constructed with, the
\* vehicles the streets have accepted, each street's remaining capacity and
\* the last pass of the loop of _create_vehicles.
simulator == <<vehicle_count, requested, placed, room, draw>>

\* What does not belong to the vehicle under update.
others == <<turn_call, simulator>>

speed_factor_num == VEHICLE_PROFILES[profile].sf_num
speed_factor_den == VEHICLE_PROFILES[profile].sf_den
reaction_time_num == VEHICLE_PROFILES[profile].rt_num
reaction_time_den == VEHICLE_PROFILES[profile].rt_den

Street == streets_map[current_street]

\* The street's limit taken without the profile's factor.
ProfileLimit_NoFactor(st) == st.speed_limit

\* street.speed_limit * self.speed_factor
ProfileLimit(st) == (st.speed_limit * speed_factor_num) \div speed_factor_den

\* ------------------------------------------------- Vehicle.current_street_id
current_street_id == current_street

\* math.degrees(math.atan2(y, x)) on the edge vectors of the network.
Atan2Deg(y, x) ==
  CASE x > 0 /\ y = 0 -> 0
    [] x > 0 /\ y = x -> 45
    [] x = 0 /\ y > 0 -> 90
    [] x < 0 /\ y = -x -> 135
    [] x < 0 /\ y = 0 -> 180
    [] x < 0 /\ y = x -> -135
    [] x = 0 /\ y < 0 -> -90
    [] x > 0 /\ y = -x -> -45

\* The signed heading difference, folded once as the code folds it.
Normalize(diff) ==
  IF diff > HalfTurn THEN diff - FullTurn
  ELSE IF diff < -HalfTurn THEN diff + FullTurn
  ELSE diff

Classify(diff) ==
  IF diff > TurnAngle THEN "right"
  ELSE IF diff < -TurnAngle THEN "left"
  ELSE "through"

\* Lines 157-180 of Vehicle._next_turn_direction, for a vehicle whose
\* current street has the polyline ccoords, with cursor idx on route and the
\* streets of smap.
TurnDirection(ccoords, route, idx, smap) ==
  IF idx >= Len(route) - 1 THEN None
  ELSE LET next_st == smap[route[idx + 2]]
           ncoords == next_st.coords
           n == Len(ccoords)
           v1 == << ccoords[n][1] - ccoords[n - 1][1], ccoords[n][2] - ccoords[n - 1][2] >>
           v2 == << ncoords[2][1] - ncoords[1][1], ncoords[2][2] - ncoords[1][2] >>
           a1 == Atan2Deg(v1[2], v1[1])
           a2 == Atan2Deg(v2[2], v2[1])
       IN Classify(Normalize(a2 - a1))

\* Vehicle._next_turn_direction, for a vehicle on street st with cursor idx.
NextTurnDirection(st, route, idx) == TurnDirection(st.coords, route, idx, streets_map)

\* Line 160 raises KeyError: the route has a next entry and streets_map
\* does not hold it.
NextStreetMissing ==
  /\ route_index < Len(route_streets) - 1
  /\ route_streets[route_index + 2] \notin StreetIds

\* The lookahead with the KeyError swallowed: no turn is reported instead.
Lookahead_SwallowsKeyError ==
  IF NextStreetMissing
  THEN [raised |-> FALSE, turn |-> None]
  ELSE [raised |-> FALSE,
        turn |-> NextTurnDirection(streets_map[current_street], route_streets, route_index)]

\* Line 76: turn_dir = self._next_turn_direction(), or the KeyError it raises.
Lookahead ==
  IF NextStreetMissing
  THEN [raised |-> TRUE, turn |-> None]
  ELSE [raised |-> FALSE,
        turn |-> NextTurnDirection(streets_map[current_street], route_streets, route_index)]

\* Vehicle._lane_allows_turn
LaneAllowsTurn(st, ln, turn) ==
  IF ln < 0 \/ ln >= st.num_lanes THEN FALSE
  ELSE LET directions == st.lane_dirs[ln + 1]
       IN IF turn = "through"
          THEN (turn \in directions \/ "through" \in directions)
          ELSE turn \in directions

\* Lines 69-72: the leader is on the same street and lane, within the headway.
LeaderTooClose(leader) ==
  /\ leader.present
  /\ leader.current_street = current_street_id
  /\ leader.lane_index = lane_index
  /\ (leader.position_s - position_s - MinGap) * reaction_time_den
        < speed * reaction_time_num

\* The acceleration wanted without the braking override.
CollisionAccel_NoBrake(leader) == max_accel

\* Lines 67-73: the acceleration wanted, with the binary braking override.
CollisionAccel(leader) ==
  IF LeaderTooClose(leader) THEN -max_decel ELSE max_accel

\* The lane change without the check of _lane_allows_turn.
LaneAfterChange_IgnoresPermission(turn_dir, dist_to_end) ==
  IF turn_dir # None /\ dist_to_end < LaneChangeDist
  THEN IF turn_dir = "left"
       THEN (IF lane_index < Street.num_lanes - 1 THEN lane_index + 1 ELSE lane_index)
       ELSE IF turn_dir = "right"
       THEN (IF lane_index > 0 THEN lane_index - 1 ELSE lane_index)
       ELSE lane_index
  ELSE lane_index

\* Lines 78-93: the lane index after the proactive lane change.
LaneAfterChange(turn_dir, dist_to_end) ==
  IF turn_dir # None /\ dist_to_end < LaneChangeDist
     /\ ~LaneAllowsTurn(Street, lane_index, turn_dir)
  THEN IF turn_dir = "left"
       THEN (IF lane_index < Street.num_lanes - 1 THEN lane_index + 1 ELSE lane_index)
       ELSE IF turn_dir = "right"
       THEN (IF lane_index > 0 THEN lane_index - 1 ELSE lane_index)
       ELSE lane_index
  ELSE lane_index

\* Every end node taken to have an intersection.
HasIntersection_Always(end_n) == TRUE

\* Lines 98-99 and 118-119: intersections_map.get(end_n) is an Intersection.
HasIntersection(end_n) == end_n \in intersections_map

\* Lines 95-101: the traffic light near the segment end.
GatedAccel(desired_accel, dist_to_end, admit_near) ==
  IF dist_to_end < SignalDist /\ HasIntersection(Street.end_node) /\ ~admit_near
  THEN -max_decel
  ELSE desired_accel

\* Lines 103-105
FinalLimit == Min(ProfileLimit(Street), base_speed_limit)

\* The speed update with the two clamps exchanged.
NewSpeed_ClampsSwapped(desired_accel, dt) ==
  Min(0, Max(speed + desired_accel * dt, FinalLimit))

\* The speed update without the floor at 0.
NewSpeed_NoFloor(desired_accel, dt) == Min(speed + desired_accel * dt, FinalLimit)

\* Lines 107-109
NewSpeed(desired_accel, dt) == Max(0, Min(speed + desired_accel * dt, FinalLimit))

\* Line 112
NewPos(new_speed, dt) == position_s + new_speed * dt

\* The lane kept as it is, whatever the next street's lane count.
ClampLane_NoClamp(ln, next_st) == ln

\* The lane reset to 0 on every transition.
ClampLane_Zero(ln, next_st) == 0

\* Line 136
ClampLane(ln, next_st) == Min(ln, next_st.num_lanes - 1)

\* ----------------------------------------------------------------- inputs
DTs == 1 .. MaxDt

LeaderPositions == {8, 40}

\* update's leader argument: None (present = FALSE), or another vehicle's
\* street, lane and position.
NoLeader == [present |-> FALSE, current_street |-> -1, lane_index |-> 0, position_s |-> 0]

Leaders ==
  {NoLeader} \cup
  {l \in [present : {TRUE}, current_street : StreetIds, lane_index : 0 .. 2,
          position_s : LeaderPositions] :
     /\ l.lane_index < streets_map[l.current_street].num_lanes
     /\ l.position_s <= streets_map[l.current_street].length}

\* The leaders update is called with for a vehicle on street st: none, every
\* leader on st, and one leader on each other street (line 69 treats all
\* leaders on another street alike).
LeadersFor(st) ==
  {l \in Leaders :
     \/ ~l.present
     \/ l.current_street = st
     \/ (l.lane_index = 0 /\ l.position_s = 8)}

Routes == UNION {[1 .. n -> StreetIds] : n \in 0 .. MaxRouteLen}

\* The answers can_vehicle_enter may give where update calls it: one of
\* oracle when it is called, and nothing to choose when it is not.
Answers(queried, oracle) == IF queried THEN oracle ELSE {TRUE}

\* The vehicle waits at the end of its segment, in front of an intersection.
Stalled ==
  /\ ~done
  /\ position_s = Street.length
  /\ speed = 0
  /\ HasIntersection(Street.end_node)

\* A turn is pending and the current lane already permits it.
TurnSatisfied ==
  LET turn_dir == Lookahead.turn
  IN turn_dir # None /\ LaneAllowsTurn(Street, lane_index, turn_dir)

\* What the last call of update was given and found; op = "init" before it
\* ("args" before __init__ has run, "init_failed" when it raised):
\* brake is the collision-avoidance condition of lines 69-72, reached is
\* new_pos >= length, admit_end the answer at line 121 ("none": not asked)
\* and lane the lane index after the lane change of lines 80-93; asked_near
\* tells whether can_vehicle_enter was called at line 100; raised tells
\* where the call raised KeyError ("none", "lookahead": line 160,
\* "transition": line 132); stalled and turn_ok tell what the vehicle was
\* before the call.
CallRecord(op, brake, asked_near, reached, admit_end, ln, raised) ==
  [op |-> op, brake |-> brake, asked_near |-> asked_near, reached |-> reached,
   admit_end |-> admit_end, lane |-> ln, raised |-> raised,
   stalled |-> (op = "update" /\ Stalled),
   turn_ok |-> (op = "update" /\ TurnSatisfied)]

\* No call of _next_turn_direction on drawn geometry is under study.
NoTurnCall == [op |-> "none"]

\* No pass of the loop of _create_vehicles has run.
NoDraw == [op |-> "none"]

\* No Simulator is under study.
SimulatorIdle ==
  /\ vehicle_count = 0
  /\ requested = 0
  /\ placed = 0
  /\ room = [s \in StreetIds |-> 0]
  /\ draw = NoDraw

\* ------------------------------------------------------- Vehicle.__init__
Init ==
  /\ profile \in Profiles
  /\ route_streets \in Routes
  /\ current_street \in (IF route_streets = << >> THEN StreetIds ELSE {route_streets[1]})
  /\ lane_index \in 0 .. (streets_map[current_street].num_lanes - 1)
  /\ position_s = 0
  /\ route_index = 0
  /\ speed = 0
  /\ base_speed_limit = ProfileLimit(streets_map[current_street])
  /\ done = FALSE
  /\ call = CallRecord("init", FALSE, FALSE, FALSE, "none", lane_index, "none")
  /\ turn_call = NoTurnCall
  /\ SimulatorIdle

\* --------------------------------------------------------- Vehicle.update
\* The deny branch without the reset of the speed.
Deny_KeepsSpeed(ln, new_pos) ==
  /\ position_s' = new_pos
  /\ lane_index' = ln
  /\ UNCHANGED <<current_street, route_index, speed, base_speed_limit, done>>

\* Lines 121-124: admission denied at the segment end.
Deny(ln, new_pos) ==
  /\ speed' = 0
  /\ position_s' = new_pos
  /\ lane_index' = ln
  /\ UNCHANGED <<current_street, route_index, base_speed_limit, done>>

\* Lines 127-130: admission granted and the route has no further entry.
RouteExhausted(ln) ==
  /\ route_index' = route_index + 1
  /\ done' = TRUE
  /\ lane_index' = ln
  /\ UNCHANGED <<current_street, position_s, speed, base_speed_limit>>

\* The transition without the renewal of the cached base speed limit.
Transition_StaleLimit(ln) ==
  LET next_st_id == route_streets[route_index + 2]
      next_st == streets_map[next_st_id]
  IN /\ route_index' = route_index + 1
     /\ current_street' = next_st.id
     /\ lane_index' = Min(ln, next_st.num_lanes - 1)
     /\ position_s' = 0
     /\ speed' = 0
     /\ UNCHANGED <<base_speed_limit, done>>

\* The transition with the route cursor advanced twice.
Transition_SkipsEntry(ln) ==
  LET next_st_id == route_streets[route_index + 2]
      next_st == streets_map[next_st_id]
  IN /\ route_index' = route_index + 2
     /\ current_street' = next_st.id
     /\ lane_index' = Min(ln, next_st.num_lanes - 1)
     /\ position_s' = 0
     /\ speed' = 0
     /\ base_speed_limit' = ProfileLimit(next_st)
     /\ UNCHANGED done

\* Line 132 raises KeyError: the entry at the advanced cursor is not a key
\* of streets_map.
TransitionFails ==
  /\ route_index + 1 < Len(route_streets)
  /\ route_streets[route_index + 2] \notin StreetIds

\* Lines 127-143: admission granted, on to the next street of the route; a
\* KeyError at line 132 leaves the cursor advanced and nothing else written.
Transition(ln) ==
  IF TransitionFails
  THEN /\ route_index' = route_index + 1
       /\ lane_index' = ln
       /\ UNCHANGED <<current_street, position_s, speed, base_speed_limit, done>>
  ELSE LET next_st_id == route_streets[route_index + 2]
           next_st == streets_map[next_st_id]
       IN /\ route_index' = route_index + 1
          /\ current_street' = next_st.id
          /\ lane_index' = ClampLane(ln, next_st)
          /\ position_s' = 0
          /\ speed' = 0
          /\ base_speed_limit' = ProfileLimit(next_st)
          /\ UNCHANGED done

\* Lines 144-146: no intersection at the end node.
NetworkExit(ln) ==
  /\ done' = TRUE
  /\ lane_index' = ln
  /\ UNCHANGED <<current_street, position_s, route_index, speed, base_speed_limit>>

\* Lines 147-149: the segment end is not reached.
Move(ln, new_speed, new_pos) ==
  /\ speed' = new_speed
  /\ position_s' = new_pos
  /\ lane_index' = ln
  /\ UNCHANGED <<current_street, route_index, base_speed_limit, done>>

\* The position update with the segment end tested by > instead of >=.
Advance_StrictEnd(ln, new_speed, new_pos, admit_end) ==
  IF new_pos > streets_map[current_street].length
  THEN IF streets_map[current_street].end_node \in intersections_map
       THEN IF ~admit_end
            THEN /\ speed' = 0
                 /\ position_s' = streets_map[current_street].length
                 /\ lane_index' = ln
                 /\ UNCHANGED <<current_street, route_index, base_speed_limit, done>>
            ELSE IF route_index + 1 >= Len(route_streets)
                 THEN /\ route_index' = route_index + 1
                      /\ done' = TRUE
                      /\ lane_index' = ln
                      /\ UNCHANGED <<current_street, position_s, speed, base_speed_limit>>
                 ELSE LET next_st == streets_map[route_streets[route_index + 2]]
                      IN /\ route_index' = route_index + 1
                         /\ current_street' = next_st.id
                         /\ lane_index' = Min(ln, next_st.num_lanes - 1)
                         /\ position_s' = 0
                         /\ speed' = 0
                         /\ base_speed_limit' = (next_st.speed_limit * speed_factor_num) \div speed_factor_den
                         /\ UNCHANGED done
       ELSE /\ done' = TRUE
            /\ lane_index' = ln
            /\ UNCHANGED <<current_street, position_s, route_index, speed, base_speed_limit>>
  ELSE /\ speed' = new_speed
       /\ position_s' = new_pos
       /\ lane_index' = ln
       /\ UNCHANGED <<current_street, route_index, base_speed_limit, done>>

\* Lines 113-149: the position update and what follows the segment end.
Advance(ln, new_speed, new_pos, admit_end) ==
  IF new_pos >= Street.length
  THEN IF HasIntersection(Street.end_node)
       THEN IF ~admit_end
            THEN Deny(ln, Street.length)
            ELSE IF route_index + 1 >= Len(route_streets)
                 THEN RouteExhausted(ln)
                 ELSE Transition(ln)
       ELSE NetworkExit(ln)
  ELSE Move(ln, new_speed, new_pos)

\* update(dt, leader) of a vehicle that is not done; admit_near and admit_end
\* are the answers of can_vehicle_enter at lines 100 and 121, drawn from oracle.
UpdateActive(dt, leader, oracle) ==
  /\ ~done
  /\ ~Lookahead.raised
  /\ LET dist_to_end == Street.length - position_s
         turn_dir == Lookahead.turn
         ln == LaneAfterChange(turn_dir, dist_to_end)
         near == dist_to_end < SignalDist /\ HasIntersection(Street.end_node)
     IN \E admit_near \in Answers(near, oracle) :
          LET desired_accel == GatedAccel(CollisionAccel(leader), dist_to_end, admit_near)
              new_speed == NewSpeed(desired_accel, dt)
              new_pos == NewPos(new_speed, dt)
              reached == new_pos >= Street.length
              asked == reached /\ HasIntersection(Street.end_node)
          IN \E admit_end \in Answers(asked, oracle) :
               /\ Advance(ln, new_speed, new_pos, admit_end)
               /\ call' = CallRecord("update", LeaderTooClose(leader), near, reached,
                                     IF ~asked THEN "none"
                                     ELSE IF admit_end THEN "grant" ELSE "deny", ln,
                                     IF asked /\ admit_end /\ TransitionFails
                                     THEN "transition" ELSE "none")
  /\ UNCHANGED <<profile, route_streets>>

\* Lines 76 and 160: the lookahead raises KeyError before any field is set.
UpdateRaises(leader) ==
  /\ ~done
  /\ Lookahead.raised
  /\ call' = CallRecord("update", LeaderTooClose(leader), FALSE, FALSE, "none",
                        lane_index, "lookahead")
  /\ UNCHANGED fields

\* The early return of a done vehicle that still zeroes the speed.
UpdateDone_ZeroesSpeed(leader) ==
  /\ done
  /\ speed' = 0
  /\ call' = CallRecord("update", LeaderTooClose(leader), FALSE, FALSE, "none",
                        lane_index, "none")
  /\ UNCHANGED <<profile, current_street, lane_index, position_s, route_streets,
                 route_index, base_speed_limit, done>>

\* Lines 62-63: update of a vehicle that is done returns at once.
UpdateDone(leader) ==
  /\ done
  /\ call' = CallRecord("update", LeaderTooClose(leader), FALSE, FALSE, "none",
                        lane_index, "none")
  /\ UNCHANGED fields

Update ==
  /\ \E dt \in DTs, leader \in LeadersFor(current_street) :
       \/ UpdateActive(dt, leader, BOOLEAN)
       \/ UpdateDone(leader)
  /\ UNCHANGED others

Next == Update

Spec == Init /\ [][Next]_vars

\* ------------------------------------------------ unchecked configurations
\* Vehicle.__init__ and update with arguments nobody has checked: a profile
\* that VEHICLE_PROFILES may not hold and route entries that streets_map may
\* not hold.
CfgProfiles == {"normal", "unknown"}

RouteIds == StreetIds \cup {99}

CfgRoutes == UNION {[1 .. n -> RouteIds] : n \in 0 .. MaxRouteLen}

\* The arguments of Vehicle.__init__, before it runs.
CfgInit ==
  /\ profile \in CfgProfiles
  /\ route_streets \in CfgRoutes
  /\ current_street \in (IF route_streets # << >> /\ route_streets[1] \in StreetIds
                          THEN {route_streets[1]} ELSE StreetIds)
  /\ lane_index \in 0 .. (streets_map[current_street].num_lanes - 1)
  /\ position_s = 0
  /\ route_index = 0
  /\ speed = 0
  /\ base_speed_limit = 0
  /\ done = FALSE
  /\ call = CallRecord("args", FALSE, FALSE, FALSE, "none", lane_index, "none")
  /\ turn_call = NoTurnCall
  /\ SimulatorIdle

\* Lines 26-56: __init__ raises KeyError at line 38 for an unknown profile
\* and stores the route as it is given.
Construct ==
  /\ call.op = "args"
  /\ IF profile \in Profiles
     THEN /\ base_speed_limit' = ProfileLimit(streets_map[current_street])
          /\ call' = [call EXCEPT !.op = "init"]
     ELSE /\ base_speed_limit' = base_speed_limit
          /\ call' = [call EXCEPT !.op = "init_failed"]
  /\ UNCHANGED <<profile, current_street, lane_index, position_s, route_streets,
                 route_index, speed, done>>
  /\ UNCHANGED others

\* update on a vehicle that __init__ has returned.
CfgUpdate ==
  /\ call.op \in {"init", "update"}
  /\ \E dt \in DTs, leader \in LeadersFor(current_street) :
       \/ UpdateActive(dt, leader, BOOLEAN)
       \/ UpdateRaises(leader)
       \/ UpdateDone(leader)
  /\ UNCHANGED others

CfgNext == Construct \/ CfgUpdate

CfgSpec == CfgInit /\ [][CfgNext]_vars

\* -------------------------------------------- the turn of drawn geometry
\* _next_turn_direction on its own: the last edge of the current street and
\* the first edge of the next street point in any of eight directions.
Directions == {<<1, 0>>, <<1, 1>>, <<0, 1>>, <<-1, 1>>,
               <<-1, 0>>, <<-1, -1>>, <<0, -1>>, <<1, -1>>}

Origins == {<<0, 0>>, <<2, -1>>}

Polylines == {<<o, <<o[1] + v[1], o[2] + v[2]>>>> : o \in Origins, v \in Directions}

\* A vehicle that takes no part: the turn is computed from the arguments.
VehicleIdle ==
  /\ profile = "normal"
  /\ route_streets = << >>
  /\ current_street = 1
  /\ lane_index = 0
  /\ position_s = 0
  /\ route_index = 0
  /\ speed = 0
  /\ base_speed_limit = 0
  /\ done = FALSE
  /\ call = CallRecord("none", FALSE, FALSE, FALSE, "none", 0, "none")

\* The current street's polyline, the next street's polyline, and a route
\* that is at its last entry (has_next FALSE) or has one more.
TurnInit ==
  /\ VehicleIdle
  /\ turn_call \in [op : {"args"}, ccoords : Polylines, ncoords : Polylines,
                     has_next : BOOLEAN, result : {"unset"}]
  /\ SimulatorIdle

\* self._next_turn_direction() with route_index = 0.
TurnCall ==
  /\ turn_call.op = "args"
  /\ LET route == IF turn_call.has_next THEN <<1, 2>> ELSE <<1>>
         smap == [id \in {2} |-> [coords |-> turn_call.ncoords]]
     IN turn_call' = [turn_call EXCEPT
                        !.op = "returned",
                        !.result = TurnDirection(turn_call.ccoords, route, 0, smap)]
  /\ UNCHANGED <<fields, call, simulator>>

TurnNext == TurnCall

TurnSpec == TurnInit /\ [][TurnNext]_vars

\* ------------------------------------------- Simulator._create_vehicles
\* The batch sizes drawn from the count the Simulator was constructed with.
BatchSizes_FromRequested == 1 .. requested

\* Line 21: random.randint(1, self.vehicle_count).
BatchSizes == 1 .. vehicle_count

\* The pass of the loop that takes one vehicle off the count for an accepted
\* batch, whatever its size.
LoopPass_CountsOne(street, count, accepted) ==
  /\ vehicle_count > 0
  /\ count \in BatchSizes
  /\ vehicle_count' = IF accepted THEN vehicle_count - 1 ELSE vehicle_count
  /\ placed' = IF accepted THEN placed + count ELSE placed
  /\ draw' = [op |-> "draw", street |-> street, count |-> count, accepted |-> accepted]
  /\ UNCHANGED requested

\* Lines 19-23: one pass of the loop, with the street and the batch size
\* that were drawn and the answer of street.create_vehicle(count).
LoopPass(street, count, accepted) ==
  /\ vehicle_count > 0
  /\ count \in BatchSizes
  /\ vehicle_count' = IF accepted THEN vehicle_count - count ELSE vehicle_count
  /\ placed' = IF accepted THEN placed + count ELSE placed
  /\ draw' = [op |-> "draw", street |-> street, count |-> count, accepted |-> accepted]
  /\ UNCHANGED requested

\* Simulator.__init__ up to the call of _create_vehicles.
SimInit ==
  /\ VehicleIdle
  /\ turn_call = NoTurnCall
  /\ requested \in 0 .. MaxVehicles
  /\ vehicle_count = requested
  /\ placed = 0
  /\ room = [s \in StreetIds |-> 0]
  /\ draw = NoDraw

\* One pass of the loop with a street that answers as it likes.
CreateVehicles ==
  /\ \E street \in StreetIds, count \in 1 .. MaxVehicles, accepted \in BOOLEAN :
       LoopPass(street, count, accepted)
  /\ UNCHANGED <<fields, call, turn_call, room>>

SimNext == CreateVehicles

SimSpec == SimInit /\ [][SimNext]_vars

\* street.create_vehicle(count) of a street with a capacity: the batch is
\* accepted exactly when it fits the capacity that remains.
Fits(street, count) == count <= room[street]

\* The capacity that remains on all the streets together.
RECURSIVE SumRoom(_)
SumRoom(S) ==
  IF S = {} THEN 0
  ELSE LET s == CHOOSE x \in S : TRUE IN room[s] + SumRoom(S \ {s})

TotalRoom == SumRoom(StreetIds)

FleetInit ==
  /\ VehicleIdle
  /\ turn_call = NoTurnCall
  /\ requested \in 0 .. MaxVehicles
  /\ vehicle_count = requested
  /\ placed = 0
  /\ room \in [StreetIds -> 0 .. MaxRoom]
  /\ draw = NoDraw

\* One pass of the loop that draws street and count, with streets of limited
\* capacity.
PlaceBatch(street, count) ==
  /\ LoopPass(street, count, Fits(street, count))
  /\ room' = IF Fits(street, count)
             THEN [room EXCEPT ![street] = @ - count]
             ELSE room
  /\ UNCHANGED <<fields, call, turn_call>>

FleetNext == \E street \in StreetIds, count \in 1 .. MaxVehicles : PlaceBatch(street, count)

\* random.choice and random.randint keep drawing every street and every
\* batch size.
FleetSpec ==
  /\ FleetInit
  /\ [][FleetNext]_vars
  /\ \A street \in StreetIds, count \in 1 .. MaxVehicles :
       WF_vars(PlaceBatch(street, count))

\* ------------------------------------------- a single vehicle on a free road
\* Routes whose last street ends at no intersection and whose other streets
\* end at one.
FreeRoutes ==
  {r \in Routes :
     /\ Len(r) >= 1
     /\ ~HasIntersection(streets_map[r[Len(r)]].end_node)
     /\ \A i \in 1 .. (Len(r) - 1) : HasIntersection(streets_map[r[i]].end_node)}

FreeInit == Init /\ route_streets \in FreeRoutes

\* update(dt, None) with every intersection granting admission.
FreeUpdate ==
  /\ \E dt \in DTs :
       \/ UpdateActive(dt, NoLeader, {TRUE})
       \/ UpdateDone(NoLeader)
  /\ UNCHANGED others

FreeNext == FreeUpdate

\* The orchestrator calls update tick after tick.
FreeSpec == FreeInit /\ [][FreeNext]_vars /\ WF_vars(FreeNext)

\* ------------------------------------------------------------------ claims
\* The turn pending before an update, and the distance left to the end.
PendingTurn == NextTurnDirection(Street, route_streets, route_index)

\* C1: an update that reaches the segment end in front of an intersection
\* and is denied admission there leaves the vehicle on the same segment with
\* the same route cursor, not done, at position = segment length, speed 0.
C1_DeniedStaysOnSegment ==
  [][(call'.reached /\ call'.admit_end = "deny") =>
       /\ current_street' = current_street
       /\ route_index' = route_index
       /\ ~done'
       /\ position_s' = streets_map[current_street].length
       /\ speed' = 0]_vars

C1_Witness ==
  /\ call.op = "update" /\ call.reached /\ call.admit_end = "deny"
  /\ ~done /\ position_s = Street.length /\ speed = 0

\* C2: before and after every update the position lies between 0 and the
\* length of the current street, and the speed is not negative.
C2_PositionAndSpeedInRange ==
  /\ 0 <= position_s
  /\ position_s <= Street.length
  /\ speed >= 0

C2_Witness ==
  /\ call.op = "update" /\ call.brake
  /\ speed = 0 /\ position_s > 0 /\ position_s < Street.length

\* C3: an update that is granted admission at the segment end with an onward
\* route entry advances the cursor by one, puts the vehicle on the street of
\* the route entry at the new cursor at position 0 with speed 0, clamps the
\* lane held at the transition to the next street's lanes and caches the
\* next street's limit times the profile's speed factor.
C3_TransitionToNextSegment ==
  [][(call'.admit_end = "grant" /\ route_index + 1 < Len(route_streets)) =>
       /\ route_index' = route_index + 1
       /\ current_street' = streets_map[route_streets[route_index' + 1]].id
       /\ position_s' = 0
       /\ speed' = 0
       /\ lane_index' = Min(call'.lane, streets_map[current_street'].num_lanes - 1)
       /\ base_speed_limit' * speed_factor_den
            = streets_map[current_street'].speed_limit * speed_factor_num
       /\ ~done']_vars

C3_Witness ==
  /\ call.op = "update" /\ call.admit_end = "grant" /\ ~done
  /\ route_index = 1 /\ position_s = 0 /\ speed = 0
  /\ current_street # route_streets[1]

C5_StallRetriedAndLeft ==
  [][Stalled =>
       /\ call'.reached
       /\ call'.admit_end # "none"
       /\ (call'.admit_end = "grant" =>
             \/ done' /\ route_index + 1 >= Len(route_streets)
             \/ /\ ~done'
                /\ route_index' = route_index + 1
                /\ current_street' = route_streets[route_index' + 1]
                /\ position_s' = 0)
       /\ (call'.admit_end = "deny" => Stalled')]_vars

C5_Witness ==
  /\ call.op = "update" /\ call.stalled /\ call.admit_end = "grant"
  /\ call.brake /\ ~done /\ position_s = 0 /\ route_index = 1

\* C6: a single vehicle without a leader, on a route of streets of positive
\* length and speed limit whose intersections always grant admission and
\* whose last street ends at no intersection, takes the streets of its route
\* one after the other in route order and is eventually done, on the last.
C6_RouteDrivenToTheEnd ==
  /\ [](~done => current_street = route_streets[route_index + 1])
  /\ [][route_index' # route_index =>
          /\ route_index' = route_index + 1
          /\ current_street' = route_streets[route_index' + 1]]_vars
  /\ <>(/\ done
        /\ route_index = Len(route_streets) - 1
        /\ current_street = route_streets[Len(route_streets)])

C6_Witness ==
  /\ done /\ call.op = "update" /\ Len(route_streets) > 1
  /\ route_index = Len(route_streets) - 1
  /\ current_street = route_streets[Len(route_streets)]

\* C7: every vehicle that is done stands at the length of its current
\* street with speed 0.
C7_TerminalAtSegmentEnd ==
  done => (position_s = Street.length /\ speed = 0)

\* C8: an update whose leader is on the same street and lane with a gap
\* below speed * reaction_time does not raise the speed.
C8_BrakingNeverSpeedsUp ==
  [][call'.brake => speed' <= speed]_vars

C8_Witness ==
  /\ call.op = "update" /\ call.brake /\ ~done /\ speed > 0

\* C9 as claimed: when a turn is pending and the current lane permits it,
\* the lane index after the update is the lane index before it.
C9_SatisfiedLaneNeverChanges ==
  [][TurnSatisfied => lane_index' = lane_index]_vars

\* C9 as amended: when a turn is pending and the current lane permits it,
\* the lane index after the update is the lane index before it, unless the
\* vehicle moves on to the next street in that update, and then it is the
\* smaller of the lane index before and the next street's last lane.
C9_SatisfiedLaneOnlyClamped ==
  [][(TurnSatisfied /\ ~done) =>
       lane_index' =
         IF call'.admit_end = "grant"
         THEN Min(lane_index, streets_map[route_streets[route_index + 2]].num_lanes - 1)
         ELSE lane_index]_vars

C9_Witness ==
  /\ call.op = "update" /\ call.turn_ok /\ call.admit_end = "grant"
  /\ ~done /\ lane_index < call.lane

\* C10: the lane index is a lane of the current street, after any sequence
\* of updates.
C10_LaneIndexValid ==
  /\ 0 <= lane_index
  /\ lane_index < Street.num_lanes

C10_Witness ==
  /\ call.op = "update" /\ call.admit_end = "grant" /\ ~done
  /\ call.lane >= Street.num_lanes
  /\ lane_index = Street.num_lanes - 1

\* C11: once a vehicle is done, every later update leaves its segment, lane
\* index, position, speed, route cursor and base speed limit as they are,
\* and done stays true.
C11_DoneIsFrozen ==
  [][done => (done' /\ UNCHANGED fields)]_vars

C11_Witness ==
  /\ done /\ call.op = "update" /\ ~call.reached /\ call.brake
  /\ position_s < Street.length

\* C16: a vehicle that reaches the end of a street whose end node is not in
\* the intersections map is done after that update, with or without onward
\* route entries, and can_vehicle_enter is called neither at line 100 nor
\* at line 121.
C16_ExitWithoutIntersection ==
  [][(~done /\ call'.reached /\ Street.end_node \notin intersections_map) =>
       /\ done'
       /\ ~call'.asked_near
       /\ call'.admit_end = "none"
       /\ current_street' = current_street
       /\ route_index' = route_index]_vars

C16_Witness ==
  /\ done /\ call.op = "update" /\ call.reached
  /\ Street.end_node \notin intersections_map
  /\ route_index < Len(route_streets) - 1

\* C18: as long as the vehicle is not done, the cached base speed limit is
\* the current street's limit times the profile's speed factor, so the
\* ceiling min(limit * factor, base limit) is that product, and the speed
\* never exceeds it.
C18_BaseLimitIsStreetLimitTimesFactor ==
  ~done =>
    /\ base_speed_limit * speed_factor_den = Street.speed_limit * speed_factor_num
    /\ FinalLimit * speed_factor_den = Street.speed_limit * speed_factor_num
    /\ speed * speed_factor_den <= Street.speed_limit * speed_factor_num

C18_Witness ==
  /\ ~done /\ call.op = "update" /\ route_index = 1
  /\ speed > 0 /\ speed = base_speed_limit
  /\ Street.speed_limit # streets_map[route_streets[1]].speed_limit

\* C19: a vehicle created on the street of its first route entry is, while
\* it is not done, on the street of the route entry at its cursor, with the
\* cursor inside the route; the cursor never decreases and grows by at most
\* one per update.
C19_CursorFollowsRoute ==
  /\ []((route_streets # << >> /\ ~done) =>
          /\ route_index < Len(route_streets)
          /\ current_street = streets_map[route_streets[route_index + 1]].id)
  /\ [][route_streets # << >> =>
          (route_index' = route_index \/ route_index' = route_index + 1)]_vars

C19_Witness ==
  /\ ~done /\ call.op = "update" /\ route_index = 1
  /\ current_street = route_streets[2] /\ position_s > 0

\* Every route entry is a key of streets_map and the profile one of
\* VEHICLE_PROFILES.
ConfigValid ==
  /\ profile \in Profiles
  /\ \A i \in 1 .. Len(route_streets) : route_streets[i] \in StreetIds

\* C15: no vehicle whose route names a street that streets_map does not
\* hold, or whose profile is not one of VEHICLE_PROFILES, is constructed and
\* then carries out an update.
C15_BadConfigNeverUpdated ==
  (call.op = "update" /\ call.raised = "none") => ConfigValid

\* C20: an update that fails on a route entry missing from streets_map fails
\* in the turn lookahead, with every field of the vehicle as it was before
\* the call; the lookup of the next street in the transition never fails.
C20_FailsInLookaheadOnly ==
  [][call'.raised # "none" =>
       /\ call'.raised = "lookahead"
       /\ UNCHANGED fields
       /\ NextStreetMissing]_vars

C20_Witness ==
  /\ call.op = "update" /\ call.raised = "lookahead"
  /\ ~done /\ NextStreetMissing /\ position_s = 0 /\ route_index = 0

\* C17: _next_turn_direction returns no turn when the route has no entry
\* after the current one; otherwise it returns the class of the heading
\* difference normalized into (-180, 180]: "right" above 30 degrees, "left"
\* below -30 degrees, else "through"; a raw difference of -180 counts as 180.
C17_TurnMatchesReference ==
  turn_call.op = "returned" =>
    LET c == turn_call.ccoords
        n == turn_call.ncoords
        a1 == Atan2Deg(c[2][2] - c[1][2], c[2][1] - c[1][1])
        a2 == Atan2Deg(n[2][2] - n[1][2], n[2][1] - n[1][1])
        diff == ((a2 - a1 + HalfTurn - 1) % FullTurn) - (HalfTurn - 1)
    IN turn_call.result =
         IF ~turn_call.has_next THEN None
         ELSE IF diff > TurnAngle THEN "right"
         ELSE IF diff < -TurnAngle THEN "left"
         ELSE "through"

\* C12: during _create_vehicles, whatever streets and batch sizes are drawn
\* and whatever the streets answer, the remaining count is never negative
\* and the vehicles placed plus the remaining count equal the requested
\* count, so no more than the requested count is ever placed.
C12_PlacedPlusRemainingIsRequested ==
  /\ vehicle_count >= 0
  /\ placed + vehicle_count = requested
  /\ placed <= requested

C12_Witness ==
  /\ draw # NoDraw /\ draw.accepted
  /\ placed > draw.count /\ vehicle_count > 0

\* C13: when every street accepts a batch exactly when it fits its remaining
\* capacity and the streets together have room for the requested count,
\* _create_vehicles ends, under fair draws, with remaining count 0.
C13_FleetPlacedInTheEnd ==
  (TotalRoom >= requested) => <>[](vehicle_count = 0 /\ placed = requested)

C13_Witness ==
  /\ vehicle_count = 0 /\ requested = MaxVehicles
  /\ draw # NoDraw /\ draw.accepted /\ draw.count < requested
  /\ TotalRoom = 0

\* C14: when the streets together have less room than the requested count,
\* the loop of _create_vehicles ends.
C14_ExhaustionEndsTheLoop ==
  (TotalRoom < requested) => <>(~(vehicle_count > 0))

====
